---- MODULE Spec2Model ----
(***************************************************************************)
(* A model of scribd-pdf-downloader: the GUI worker (gui.py), the          *)
(* Selenium downloader (selenium_downloader.py) and the static retriever   *)
(* (scribdl.py).  One run of DownloadThread is modelled, with the GUI      *)
(* thread able to set the stop flag at any moment of the run.              *)
(*                                                                         *)
(* Strings that the program inspects (URLs) are sequences of one-character *)
(* strings.  The browser, the network and the file system are the          *)
(* environment: each call into them picks its outcome from the outcomes    *)
(* the call can have (return, raise).                                      *)
(***************************************************************************)
EXTENDS Integers, Sequences, FiniteSets, TLC

\* ------------------------------------------------------------------ bounds
\* Largest number of outer_page elements the browser session materializes.
MaxPages == 3
\* The scrollable heights the session can report are 1000, 2000, ... px.
MaxHeightSteps == 4
\* Largest number of script elements in the fetched markup.
MaxScripts == 2
\* Cap of the stability counter of the lazy-load loop.  The loop ends once
\* 800 * increments reaches the height, so with the heights above the counter
\* stays below the cap and the cap never stops the loop (LazyLoopNotCapped).
MaxIncrements == 8
\* Longest title sanitize_title is called with, the title of test_text.py
\* apart.
MaxTitleLen == 2
\* Largest number of elements in the content string of a response.
MaxElems == 2

\* -------------------------------------------------------- program constants
ScrollIncrement == 800
Viewport == 1080
StableScrolls == 3
max_retries == 3
init_max_retries == 3

Heights == {1000 * k : k \in 1..MaxHeightSteps}

Min(a, b) == IF a <= b THEN a ELSE b
Max(a, b) == IF a >= b THEN a ELSE b

\* ------------------------------------------------------------------- URLs
Digits == {"0", "1", "2", "3", "4", "5", "6", "7", "8", "9"}
LitDoc == <<"d", "o", "c">>
LitDocument == <<"d", "o", "c", "u", "m", "e", "n", "t">>
LitEmbeds == <<"e", "m", "b", "e", "d", "s">>
\* A pattern without the embeds alternative.
LiteralsNoEmbeds == <<LitDoc, LitDocument>>

\* The alternation of the pattern, in the order the regex engine tries it.
Literals == <<LitDoc, LitDocument, LitEmbeds>>

UrlDocument == <<"/">> \o LitDocument \o <<"/", "7", "9", "/", "t">>
UrlDoc == <<"/">> \o LitDoc \o <<"/", "7", "9", "/", "t">>
UrlEmbeds == <<"/">> \o LitEmbeds \o <<"/", "7", "9", "/", "c">>
UrlNotADoc == <<"/", "n", "o", "t", "a">> \o LitDoc
UrlDocNoDigits == <<"/">> \o LitDoc \o <<"/", "t", "7">>
Urls == {UrlDocument, UrlEmbeds, UrlNotADoc}

\* u[p..] starts with the sequence lit.
StartsWithAt(u, p, lit) ==
    /\ p + Len(lit) - 1 <= Len(u)
    /\ \A k \in 1..Len(lit) : u[p + k - 1] = lit[k]

\* The longest run of digits of u that starts at position p (\d+ is greedy).
RECURSIVE DigitRun(_, _)
DigitRun(u, p) ==
    IF p <= Len(u) /\ u[p] \in Digits
    THEN <<u[p]>> \o DigitRun(u, p + 1)
    ELSE <<>>

\* (?:doc|document|embeds)/(\d+) matched with its first character at p, for
\* the alternative lit.
MatchLitAt(u, p, lit) ==
    /\ StartsWithAt(u, p, lit)
    /\ p + Len(lit) <= Len(u)
    /\ u[p + Len(lit)] = "/"
    /\ DigitRun(u, p + Len(lit) + 1) # <<>>

MatchAt(u, p) == \E a \in 1..Len(Literals) : MatchLitAt(u, p, Literals[a])

\* Group 1 of the match at p: the first alternative that matches decides.
GroupAt(u, p) ==
    LET a == CHOOSE x \in 1..Len(Literals) :
                 /\ MatchLitAt(u, p, Literals[x])
                 /\ \A y \in 1..(x - 1) : ~MatchLitAt(u, p, Literals[y])
    IN  DigitRun(u, p + Len(Literals[a]) + 1)

\* re.search: the leftmost position with a match; <<>> stands for None.
extract_doc_id(u) ==
    IF \E p \in 1..Len(u) : MatchAt(u, p)
    THEN LET p == CHOOSE q \in 1..Len(u) :
                      MatchAt(u, q) /\ \A r \in 1..(q - 1) : ~MatchAt(u, r)
         IN  GroupAt(u, p)
    ELSE <<>>

\* get_doc_id of scribdl.py, line 250: re.search with the pattern text of
\* _extract_doc_id.
get_doc_id(u) == extract_doc_id(u)

\* f"https://www.scribd.com/embeds/{doc_id}/content"
EmbedUrl(id) == <<"/">> \o LitEmbeds \o <<"/">> \o id \o <<"/", "c">>

\* --------------------------------------------------------------- the jobs
\* DownloadThread(url, mode, output_dir, use_selenium)
Jobs == {[use_selenium |-> TRUE, mode |-> "pdf"],
         [use_selenium |-> TRUE, mode |-> "html"],
         [use_selenium |-> FALSE, mode |-> "text"],
         [use_selenium |-> FALSE, mode |-> "images"],
         [use_selenium |-> FALSE, mode |-> "html"]}

\* ------------------------------------------------------------- the markup
\* A script element, by what get_scribd_document reads of it: string (it has
\* text of its own), marker (the text holds "window.page" and "_callback"),
\* n (the https://...jsonp URLs in the text), keyed (each URL is the quoted
\* value of a contentUrl key), empty (the first ".jsonp" of the text stands
\* before its first "https://", so that the slice of line 362 is "" and
\* save_content returns at line 205 with the ordinal as it was).
ScriptKinds ==
    {[string |-> FALSE, marker |-> FALSE, keyed |-> FALSE, n |-> 0, empty |-> FALSE],
     [string |-> TRUE, marker |-> FALSE, keyed |-> FALSE, n |-> 0, empty |-> FALSE],
     [string |-> TRUE, marker |-> TRUE, keyed |-> FALSE, n |-> 1, empty |-> FALSE],
     [string |-> TRUE, marker |-> TRUE, keyed |-> FALSE, n |-> 1, empty |-> TRUE],
     [string |-> TRUE, marker |-> FALSE, keyed |-> TRUE, n |-> 2, empty |-> FALSE]}

SeqsUpTo(S, n) == UNION {[1..k -> S] : k \in 0..n}
\* soup.find_all("script") of the documents a fetch can return.
Docs == SeqsUpTo(ScriptKinds, MaxScripts)

\* ------------------------------------------------------------ file values
NoFile == [exists |-> FALSE, pages |-> <<>>]
\* A file that was opened for writing and never got a valid document.
BrokenFile == [exists |-> TRUE, pages |-> <<>>]
\* No sink has been called.
NoResponse == [fetch |-> "none"]
\* The output file as a run can find it: absent, or left by an earlier run
\* (a text file holds the strings written, an html file its pieces).
OldFile(mode) ==
    [exists |-> TRUE,
     pages |-> IF mode = "text" THEN <<"old", "\n">>
               ELSE <<[index |-> 0, kind |-> "old"]>>]
PriorFiles(mode) == {NoFile, OldFile(mode)}
OnePage(i, kind) == [exists |-> TRUE, pages |-> <<[index |-> i, kind |-> kind]>>]
IsPdf(f) == f.exists /\ f.pages # <<>>

VARIABLES
    job,               \* the thread's use_selenium and mode
    url,               \* the thread's url
    stop,              \* not DownloadThread._is_running
    pc,                \* where the worker thread is
    report,            \* what finished_signal carried
    ret,               \* the value download_as_pdf / download_as_html returned
    driver,            \* self.driver: 0 is None, else a session id
    created,           \* browser sessions created so far
    open,              \* the sessions not yet quit
    initAttempt,       \* attempt of _setup_driver's loop
    requested,         \* the URL the browser was sent to
    pages,             \* outer_page elements in the session's DOM
    height,            \* document.body.scrollHeight
    yoff,              \* window.pageYOffset
    scroll_position,   \* locals of _auto_scroll_and_load
    increments,        \* passes through line 132 in this call
    maxHeight,         \* largest scrollHeight read at line 152 in this call
    page_count,
    no_new_content_count,
    lazyExit,          \* how the lazy-load loop ended
    nPages,            \* len(pages) in download_as_pdf
    i,                 \* index of the page being captured
    attempt,           \* attempt of the capture loop
    captured,
    files,             \* temp_dir/page_%03d.pdf, by page index
    tempDir,           \* temp_dir exists
    temp_pdfs,         \* the list handed to _merge_pdfs
    outFile,           \* the output file of the run
    exhausted,         \* pages whose attempts all failed
    blocked,           \* a blocking operation has been performed
    stoppedAtStart,    \* the flag was set before run() did anything
    sawStop,           \* a poll of check_stop returned True
    scripts,           \* soup.find_all("script")
    sIdx,              \* the script the loop is at
    mIdx,              \* the match the inner loop is at (0: not in it)
    train,             \* the ordinal of the next descriptor
    dispatched,        \* the calls of a sink: ordinal and descriptor
    images,            \* the image files written: ordinal and descriptor
    merged,            \* how the call of _merge_pdfs ended
    removeFailed,      \* the page files whose os.remove raised
    rmdirFailed,       \* os.rmdir(temp_dir) raised
    initTries,         \* attempts _setup_driver has made
    initWaits,         \* time.sleep(2) calls _setup_driver has made
    doc_id,            \* what get_doc_id / _extract_doc_id returned
    rawTitle,          \* title before sanitize_title
    title,             \* title after sanitize_title
    titleTag,          \* soup.find("title"): "absent" or "present"
    response,          \* the response a sink is called with
    priorFile,         \* the output file as an earlier run left it
    primaryTries,      \* Page.printToPDF calls for the page being captured
    primaryFails,      \* those of them that failed
    fallbackTries,     \* _capture_as_image_pdf calls for that page
    attemptWaits       \* time.sleep(1) calls between its attempts

vars == <<job, url, stop, pc, report, ret, driver, created, open, initAttempt,
          requested, pages, height, yoff, scroll_position, increments,
          maxHeight, page_count,
          no_new_content_count, lazyExit, nPages, i, attempt, captured, files,
          tempDir, temp_pdfs, outFile, exhausted, blocked, stoppedAtStart,
          sawStop, scripts, sIdx, mIdx, train, dispatched, images, merged,
          removeFailed, rmdirFailed, initTries, initWaits, doc_id, rawTitle,
          title, titleTag, response, priorFile, primaryTries, primaryFails,
          fallbackTries, attemptWaits>>

staticVars == <<scripts, sIdx, mIdx, train, dispatched, images>>
sessionVars == <<driver, created, open, initAttempt>>
domVars == <<pages, height, yoff>>
lazyVars == <<scroll_position, increments, maxHeight, page_count,
             no_new_content_count, lazyExit>>
captureVars == <<nPages, i, attempt, captured, files, tempDir, temp_pdfs, exhausted>>
mergeVars == <<merged, removeFailed, rmdirFailed>>
initVars == <<initTries, initWaits>>
titleVars == <<doc_id, rawTitle, title, titleTag>>
tryVars == <<primaryTries, primaryFails, fallbackTries, attemptWaits>>

Init ==
    /\ job \in Jobs
    /\ url \in Urls
    /\ stop = FALSE
    /\ pc = "start"
    /\ report = "none"
    /\ ret = "none"
    /\ driver = 0
    /\ created = 0
    /\ open = {}
    /\ initAttempt = 0
    /\ requested = <<>>
    /\ pages = 0
    /\ height = 0
    /\ yoff = 0
    /\ scroll_position = 0
    /\ increments = 0
    /\ maxHeight = 0
    /\ page_count = 0
    /\ no_new_content_count = 0
    /\ lazyExit = "none"
    /\ nPages = 0
    /\ i = 0
    /\ attempt = 0
    /\ captured = FALSE
    /\ files = [k \in 1..MaxPages |-> NoFile]
    /\ tempDir = FALSE
    /\ temp_pdfs = <<>>
    /\ exhausted = {}
    /\ blocked = FALSE
    /\ stoppedAtStart = FALSE
    /\ sawStop = FALSE
    /\ scripts = <<>>
    /\ sIdx = 0
    /\ mIdx = 0
    /\ train = 0
    /\ dispatched = <<>>
    /\ images = {}
    /\ merged = "none"
    /\ removeFailed = {}
    /\ rmdirFailed = FALSE
    /\ initTries = 0
    /\ initWaits = 0
    /\ doc_id = <<>>
    /\ rawTitle = <<>>
    /\ title = <<>>
    /\ titleTag = "none"
    /\ response = NoResponse
    /\ priorFile \in IF ~job.use_selenium /\ job.mode \in {"text", "html"}
                   THEN PriorFiles(job.mode) ELSE {NoFile}
    /\ outFile = priorFile
    /\ primaryTries = 0
    /\ primaryFails = 0
    /\ fallbackTries = 0
    /\ attemptWaits = 0

\* ------------------------------------------------------------ the GUI side
\* ScribdDownloaderWindow.stop_download: the thread is running, the button is
\* enabled until its first click.
StopDownload ==
    /\ pc # "done"
    /\ ~stop
    /\ stop' = TRUE
    /\ stoppedAtStart' = (pc = "start")
    /\ UNCHANGED <<job, url, response, priorFile, tryVars, mergeVars, initVars, titleVars, pc, report, ret, sessionVars, requested, domVars,
                   lazyVars, captureVars, outFile, blocked, sawStop,
                   staticVars>>

\* ------------------------------------------------- download_with_selenium
\* A test that lets every id through.
IdNeverMissing(id) == FALSE

\* if not doc_id: (scribdl.py 266, selenium_downloader.py 277, 481 and 564);
\* <<>> stands for None.
IdIsMissing(id) == id = <<>>

\* Lines 560-576: the id, then the output directory.  os.makedirs can raise,
\* and nothing in download_with_selenium catches it.
RunSelenium ==
    /\ pc = "start"
    /\ job.use_selenium
    /\ doc_id' = extract_doc_id(url)
    /\ \E mkdir \in {"ok", "raise"} :
          pc' = IF IdIsMissing(doc_id') THEN "emit"
                ELSE IF mkdir = "raise" THEN "emit_exc"
                ELSE "setup"
    /\ UNCHANGED <<job, url, response, priorFile, tryVars, mergeVars, initVars, rawTitle, title, titleTag, stop, report,
                   ret, sessionVars, requested, domVars,
                   lazyVars, captureVars, outFile, blocked, stoppedAtStart, sawStop,
                   staticVars>>

\* ------------------------------------------------------------ _setup_driver
\* The session self.driver holds after the except clause of one attempt has
\* run: quit() closes it.
QuitDriver(d, o) == IF d # 0 THEN o \ {d} ELSE o

\* A loop that goes round once more than max_retries allows.
InitAttemptRemainsOneMore(a) == a < init_max_retries

\* Line 79: if attempt < max_retries - 1 (then time.sleep(2), else raise).
InitAttemptRemains(a) == a < init_max_retries - 1

\* One attempt of the loop of _setup_driver.  "import": webdriver_manager is
\* missing (before the loop); "chrome": webdriver.Chrome raised; "timeout":
\* the session was created and set_page_load_timeout raised.  initTries and
\* initWaits count the attempts and the sleeps of the call; they are cleared
\* when the call returns a driver.
SetupAttempt ==
    /\ pc = "setup"
    /\ blocked' = TRUE
    /\ \E outcome \in {"ok", "chrome", "timeout"} \cup
                      (IF initAttempt = 0 THEN {"import"} ELSE {}) :
          CASE outcome = "ok" ->
                 /\ driver' = created + 1
                 /\ created' = created + 1
                 /\ open' = open \cup {created + 1}
                 /\ pc' = "navigate"
                 /\ initAttempt' = 0
                 /\ initTries' = 0
                 /\ initWaits' = 0
                 /\ UNCHANGED ret
            [] outcome = "import" ->
                 /\ pc' = "finally"
                 /\ ret' = "False"
                 /\ UNCHANGED <<driver, created, open, initAttempt, initVars>>
            [] OTHER ->
                 /\ driver' = IF outcome = "timeout" THEN created + 1 ELSE driver
                 /\ created' = IF outcome = "timeout" THEN created + 1 ELSE created
                 /\ open' = QuitDriver(driver',
                                       IF outcome = "timeout"
                                       THEN open \cup {created + 1} ELSE open)
                 /\ initTries' = initTries + 1
                 /\ IF InitAttemptRemains(initAttempt)
                    THEN /\ initWaits' = initWaits + 1
                         /\ initAttempt' = initAttempt + 1
                         /\ UNCHANGED <<pc, ret>>
                    ELSE /\ pc' = "finally"
                         /\ ret' = "False"
                         /\ initAttempt' = 0
                         /\ UNCHANGED initWaits
    /\ UNCHANGED <<job, url, response, priorFile, tryVars, mergeVars, titleVars, stop, report, requested,
                   domVars, lazyVars,
                   captureVars, outFile, stoppedAtStart, sawStop,
                   staticVars>>

\* ------------------------------------------------------ the browser session
\* window.scrollTo(0, position) in a document of scrollable height h: the
\* offset cannot pass the last full viewport.
ScrollTo(position, h) == Min(position, Max(0, h - Viewport))

\* Lines 276-292 of download_as_pdf and 480-493 of download_as_html, then
\* lines 116-121 of _auto_scroll_and_load.  driver.get or the wait for
\* document_scroller can raise; _dismiss_cookie_banner catches what it raises.
\* The document arrives with some pages already materialized.
Navigate ==
    /\ pc = "navigate"
    /\ blocked' = TRUE
    /\ IF IdIsMissing(extract_doc_id(url))
       THEN /\ pc' = "finally"
            /\ ret' = "False"
            /\ UNCHANGED <<requested, domVars>>
       ELSE /\ requested' = EmbedUrl(extract_doc_id(url))
            /\ \E loaded \in BOOLEAN, p0 \in 0..MaxPages, h0 \in Heights :
                  IF loaded
                  THEN /\ pages' = p0
                       /\ height' = h0
                       /\ yoff' = 0
                       /\ pc' = "lazy"
                       /\ UNCHANGED ret
                  ELSE /\ pc' = "finally"
                       /\ ret' = "False"
                       /\ UNCHANGED domVars
    /\ UNCHANGED <<job, url, response, priorFile, tryVars, mergeVars, initVars, titleVars, stop, report, sessionVars, lazyVars, captureVars,
                   outFile, stoppedAtStart, sawStop,
                   staticVars>>

\* ---------------------------------------------------- _auto_scroll_and_load
\* Lines 124-126: the poll at the head of the loop saw the flag.
LazyStop ==
    /\ pc = "lazy"
    /\ stop
    /\ pc' = "lazy_ret"
    /\ lazyExit' = "stop"
    /\ sawStop' = TRUE
    /\ UNCHANGED <<job, url, response, priorFile, tryVars, mergeVars, initVars, titleVars, stop, report, ret, sessionVars, requested, domVars,
                   scroll_position, increments, maxHeight, page_count,
                   no_new_content_count,
                   captureVars, outFile, blocked, stoppedAtStart,
                   staticVars>>

\* The increment written as an assignment.
NextScrollPositionAssigned(sp) == ScrollIncrement

\* An increment of one viewport height, as the comment of line 131 has it.
NextScrollPositionViewport(sp) == sp + Viewport

\* scroll_position += 800
NextScrollPosition(sp) == sp + ScrollIncrement

\* The first condition without its counter.
AtBottomOnly(cur, h, cnt) == cur + Viewport >= h

\* The second condition with a strict comparison.
ScrolledPastStrict(sp, h) == sp > h

\* Lines 155-156: the two ways the loop ends after an increment.
AtBottomAndStable(cur, h, cnt) == cur + Viewport >= h /\ cnt >= StableScrolls
ScrolledPast(sp, h) == sp >= h

\* Lines 128-160: one increment.  During the pause the session may materialize
\* pages and change the scrollable height.  find_elements is taken to work
\* (_count_loaded_pages answers 0 when it does not).
LazyScroll ==
    /\ pc = "lazy"
    /\ ~stop
    /\ no_new_content_count < MaxIncrements
    /\ blocked' = TRUE
    /\ \E pages_after \in pages..MaxPages, new_height \in Heights :
          LET sp == NextScrollPosition(scroll_position)
              cnt == IF pages_after > pages THEN 0 ELSE no_new_content_count + 1
              cur == Min(ScrollTo(sp, height), Max(0, new_height - Viewport))
          IN  /\ scroll_position' = sp
              /\ increments' = increments + 1
              /\ maxHeight' = Max(maxHeight, new_height)
              /\ pages' = pages_after
              /\ height' = new_height
              /\ yoff' = cur
              /\ no_new_content_count' = cnt
              /\ page_count' = IF pages_after > pages THEN pages_after ELSE page_count
              /\ IF AtBottomAndStable(cur, new_height, cnt)
                 THEN /\ pc' = "lazy_ret"
                      /\ lazyExit' = "a"
                 ELSE IF ScrolledPast(sp, new_height)
                 THEN /\ pc' = "lazy_ret"
                      /\ lazyExit' = "b"
                 ELSE UNCHANGED <<pc, lazyExit>>
    /\ UNCHANGED <<job, url, response, priorFile, tryVars, mergeVars, initVars, titleVars, stop, report, ret, sessionVars, requested,
                   captureVars, outFile, stoppedAtStart, sawStop,
                   staticVars>>

\* ---------------------------------------------------------- download_as_pdf
\* Lines 297-310: the poll after the loop, the page elements, the scratch
\* directory.  The locals of _auto_scroll_and_load are gone, and nothing reads
\* the session's scroll metrics from here on.
AfterLazyPdf ==
    /\ pc = "lazy_ret"
    /\ job.mode = "pdf"
    /\ scroll_position' = 0
    /\ increments' = 0
    /\ maxHeight' = 0
    /\ no_new_content_count' = 0
    /\ lazyExit' = "none"
    /\ height' = 0
    /\ yoff' = 0
    /\ IF stop
       THEN /\ pc' = "finally"
            /\ ret' = "False"
            /\ sawStop' = TRUE
            /\ UNCHANGED <<nPages, i, tempDir>>
       ELSE IF pages = 0
       THEN /\ pc' = "finally"
            /\ ret' = "False"
            /\ UNCHANGED <<nPages, i, tempDir, sawStop>>
       ELSE /\ nPages' = pages
            /\ tempDir' = TRUE
            /\ i' = 1
            /\ pc' = "capture"
            /\ UNCHANGED <<ret, sawStop>>
    /\ UNCHANGED <<job, url, response, priorFile, tryVars, mergeVars, initVars, titleVars, stop, report, sessionVars, requested, pages,
                   page_count, attempt, captured, files, temp_pdfs, exhausted,
                   outFile, blocked, stoppedAtStart,
                   staticVars>>

\* Lines 314-316: the poll at the head of the capture loop saw the flag.
\* A poll that leaves the loop of the pages and goes on to the merge.
CaptureStopBreaks == "merge"

\* Line 316: return False, which leaves the function through finally.
CaptureStopPc == "finally"

CaptureStop ==
    /\ pc = "capture"
    /\ stop
    /\ pc' = CaptureStopPc
    /\ ret' = "False"
    /\ sawStop' = TRUE
    /\ UNCHANGED <<job, url, response, priorFile, tryVars, mergeVars, initVars, titleVars, stop, report, sessionVars, requested, domVars,
                   lazyVars, captureVars, outFile, blocked, stoppedAtStart,
                   staticVars>>

\* The capture loop without its poll.
CaptureNeverPolls == TRUE

\* if check_stop and check_stop(): return False
CapturePollPasses == ~stop

\* Lines 314-325: the poll passed; _scroll_to_element runs outside the try of
\* the attempts, so what execute_script raises leaves the loop.
CaptureBegin ==
    /\ pc = "capture"
    /\ CapturePollPasses
    /\ blocked' = TRUE
    /\ \E scrolled \in BOOLEAN :
          IF scrolled
          THEN /\ pc' = "attempt"
               /\ attempt' = 0
               /\ captured' = FALSE
               /\ UNCHANGED ret
          ELSE /\ pc' = "finally"
               /\ ret' = "False"
               /\ UNCHANGED <<attempt, captured>>
    /\ UNCHANGED <<job, url, response, priorFile, tryVars, mergeVars, initVars, titleVars, stop, report, sessionVars, requested, domVars,
                   lazyVars, nPages, i, files, tempDir, temp_pdfs, exhausted,
                   outFile, stoppedAtStart, sawStop,
                   staticVars>>

\* One attempt more than range(max_retries) has.
AttemptRemainsOneMore(a) == a < max_retries

\* for attempt in range(max_retries): another attempt follows this one.
AttemptRemains(a) == a < max_retries - 1

\* Lines 327-367: one attempt.  "print": Page.printToPDF and the write worked;
\* "image": the print failed and the screenshot fallback worked; "fail": both
\* failed; "truncated": both failed after open(temp_pdf_path, 'wb') had
\* emptied the file.  The fallback is called in the except clause of the
\* print (line 352) and time.sleep(1) in the except clause of the attempt,
\* when another attempt follows (lines 364-365).
CaptureAttempt ==
    /\ pc = "attempt"
    /\ blocked' = TRUE
    /\ primaryTries' = primaryTries + 1
    /\ \E outcome \in {"print", "image", "fail", "truncated"} :
          /\ primaryFails' = IF outcome = "print" THEN primaryFails
                             ELSE primaryFails + 1
          /\ fallbackTries' = IF outcome = "print" THEN fallbackTries
                              ELSE fallbackTries + 1
          /\ IF outcome \in {"print", "image"}
             THEN /\ files' = [files EXCEPT ![i] = OnePage(i, outcome)]
                  /\ captured' = TRUE
                  /\ pc' = "page_done"
                  /\ UNCHANGED <<attempt, exhausted, attemptWaits>>
             ELSE /\ files' = IF outcome = "truncated"
                              THEN [files EXCEPT ![i] = BrokenFile] ELSE files
                  /\ IF AttemptRemains(attempt)
                     THEN /\ attempt' = attempt + 1
                          /\ attemptWaits' = attemptWaits + 1
                          /\ UNCHANGED <<pc, exhausted>>
                     ELSE /\ pc' = "page_done"
                          /\ exhausted' = exhausted \cup {i}
                          /\ UNCHANGED <<attempt, attemptWaits>>
                  /\ UNCHANGED captured
    /\ UNCHANGED <<job, url, response, priorFile, mergeVars, initVars, titleVars, stop, report, ret, sessionVars, requested, domVars,
                   lazyVars, nPages, i, tempDir, temp_pdfs, outFile,
                   stoppedAtStart, sawStop,
                   staticVars>>

\* _create_blank_pdf, by what happened: "reportlab" wrote the page, "minimal"
\* wrote the hand-made document after the ImportError, "logged" is the
\* except Exception clause (the error is logged, nothing is written), "raise"
\* is a failure of the write inside the ImportError clause, which no clause
\* of that try catches.
BlankOutcomes == {"reportlab", "minimal", "logged", "raise"}

\* Lines 369-373, and the step of the for loop; the counts of the tries of
\* the page end with it.
PageDone ==
    /\ pc = "page_done"
    /\ primaryTries' = 0
    /\ primaryFails' = 0
    /\ fallbackTries' = 0
    /\ attemptWaits' = 0
    /\ \E blank \in IF captured THEN {"none"} ELSE BlankOutcomes :
          IF blank = "raise"
          THEN /\ pc' = "finally"
               /\ ret' = "False"
               /\ UNCHANGED <<files, temp_pdfs, i>>
          ELSE /\ files' = IF blank \in {"reportlab", "minimal"}
                           THEN [files EXCEPT ![i] = OnePage(i, "blank")]
                           ELSE files
               /\ temp_pdfs' = Append(temp_pdfs, i)
               /\ i' = i + 1
               /\ pc' = IF i < nPages THEN "capture" ELSE "merge"
               /\ UNCHANGED ret
    /\ UNCHANGED <<job, url, response, priorFile, mergeVars, initVars, titleVars, stop, report, sessionVars, requested, domVars,
                   lazyVars, nPages, attempt, captured, tempDir, exhausted,
                   outFile, blocked, stoppedAtStart, sawStop,
                   staticVars>>

\* A merge that leaves the placeholder pages out.
RECURSIVE MergedPagesNoBlank(_, _)
MergedPagesNoBlank(pdf_files, fs) ==
    IF pdf_files = <<>> THEN <<>>
    ELSE SelectSeq(fs[Head(pdf_files)].pages, LAMBDA pg : pg.kind # "blank")
         \o MergedPagesNoBlank(Tail(pdf_files), fs)

\* _merge_pdfs: merger.append(pdf) for pdf in pdf_files, in list order; every
\* page of each file is taken.
RECURSIVE MergedPages(_, _)
MergedPages(pdf_files, fs) ==
    IF pdf_files = <<>> THEN <<>>
    ELSE fs[Head(pdf_files)].pages \o MergedPages(Tail(pdf_files), fs)

\* A failed merge that still goes on to the removal of the page files.
MergeFailureCleansUp == "cleanup"

\* Lines 394-396: what _merge_pdfs raises (line 459) is caught by the except
\* clause of download_as_pdf, which returns False; the removal of the page
\* files (lines 379-389) is inside the try block, after the merge, and is
\* passed over.
MergeFailurePc == "finally"

\* Lines 375-377.  PdfMerger.append raises on a file that is missing or is no
\* PDF; "fail" is any other failure before the output is opened, "failwrite"
\* a failure of merger.write after it was.
Merge ==
    /\ pc = "merge"
    /\ \E outcome \in {"ok", "fail", "failwrite"} :
          IF outcome = "ok" /\ \A k \in 1..Len(temp_pdfs) : IsPdf(files[temp_pdfs[k]])
          THEN /\ outFile' = [exists |-> TRUE, pages |-> MergedPages(temp_pdfs, files)]
               /\ merged' = "ok"
               /\ pc' = "cleanup"
               /\ UNCHANGED ret
          ELSE /\ outFile' = IF outcome = "failwrite" THEN BrokenFile ELSE outFile
               /\ merged' = "failed"
               /\ pc' = MergeFailurePc
               /\ ret' = "False"
    /\ UNCHANGED <<job, url, response, priorFile, tryVars, removeFailed, rmdirFailed, initVars, titleVars,
                   stop, report, sessionVars, requested, domVars,
                   lazyVars, captureVars, blocked, stoppedAtStart, sawStop,
                   staticVars>>

\* A result that depends on the removals.
CleanupResultStrict(failedFiles, dirFailed) ==
    IF failedFiles = {} /\ ~dirFailed THEN "True" ELSE "False"

\* Line 392, reached whatever the removals did: each except clause of lines
\* 383-384 and 388-389 is a bare pass.
CleanupResult(failedFiles, dirFailed) == "True"

\* Lines 379-392: os.remove of each file of the list and os.rmdir, each in its
\* own try/except/pass.  kept: the files whose removal raised; rmdir: os.rmdir
\* would succeed on an empty directory (it raises on one that is not).
Cleanup ==
    /\ pc = "cleanup"
    /\ \E kept \in SUBSET (1..nPages), rmdir \in BOOLEAN :
          /\ files' = [k \in 1..MaxPages |-> IF k \in kept THEN files[k] ELSE NoFile]
          /\ removeFailed' = kept
          /\ rmdirFailed' = ~(rmdir /\ kept = {})
          /\ tempDir' = rmdirFailed'
          /\ ret' = CleanupResult(kept, rmdirFailed')
    /\ pc' = "finally"
    /\ UNCHANGED <<job, url, response, priorFile, tryVars, merged, initVars, titleVars, stop, report,
                   sessionVars, requested, domVars,
                   lazyVars, nPages, i, attempt, captured, temp_pdfs, exhausted,
                   outFile, blocked, stoppedAtStart, sawStop,
                   staticVars>>

\* --------------------------------------------------------- download_as_html
\* The page source as a file: one piece for each page the DOM holds.
PageSource(n) ==
    [exists |-> TRUE, pages |-> [k \in 1..n |-> [index |-> k, kind |-> "html"]]]

\* The poll of line 498 left out.
HtmlPollAlwaysPasses(flag) == TRUE

\* Line 498: if check_stop and check_stop(): return False
HtmlPollPasses(flag) == ~flag

\* Lines 498-510: the poll after the loop, then the page source is written.
AfterLazyHtml ==
    /\ pc = "lazy_ret"
    /\ job.mode = "html"
    /\ scroll_position' = 0
    /\ increments' = 0
    /\ maxHeight' = 0
    /\ no_new_content_count' = 0
    /\ lazyExit' = "none"
    /\ height' = 0
    /\ yoff' = 0
    /\ pc' = "finally"
    /\ IF ~HtmlPollPasses(stop)
       THEN /\ ret' = "False"
            /\ sawStop' = TRUE
            /\ UNCHANGED outFile
       ELSE /\ \E written \in BOOLEAN :
                  IF written
                  THEN /\ outFile' = PageSource(pages)
                       /\ ret' = "True"
                  ELSE /\ outFile' = BrokenFile
                       /\ ret' = "False"
            /\ UNCHANGED sawStop
    /\ UNCHANGED <<job, url, response, priorFile, tryVars, mergeVars, initVars, titleVars, stop, report, sessionVars, requested, pages,
                   page_count, captureVars, blocked, stoppedAtStart,
                   staticVars>>

\* ---------------------------------------------------------------- the ends
\* The session closed at the end of the try block only.
CloseSessionOnSuccess(d, o) == IF ret = "True" THEN QuitDriver(d, o) ELSE o

\* finally: if self.driver: self.driver.quit().  download_with_selenium drops
\* the value returned and returns None.  quit() is taken to end the session.
CloseSession(d, o) == QuitDriver(d, o)

Finally ==
    /\ pc = "finally"
    /\ open' = CloseSession(driver, open)
    /\ pc' = "emit"
    /\ UNCHANGED <<job, url, response, priorFile, tryVars, mergeVars, initVars, titleVars, stop, report, ret, driver, created, initAttempt,
                   requested, domVars, lazyVars, captureVars, outFile, blocked,
                   stoppedAtStart, sawStop,
                   staticVars>>

\* DownloadThread.run, lines 73-76: the callee returned.
Emit ==
    /\ pc = "emit"
    /\ report' = IF ~stop THEN "success" ELSE "stopped"
    /\ pc' = "done"
    /\ UNCHANGED <<job, url, response, priorFile, tryVars, mergeVars, initVars, titleVars, stop, ret, sessionVars, requested, domVars,
                   lazyVars, captureVars, outFile, blocked, stoppedAtStart, sawStop,
                   staticVars>>

\* DownloadThread.run, lines 78-79: the callee raised.
EmitError ==
    /\ pc = "emit_exc"
    /\ report' = "error"
    /\ pc' = "done"
    /\ UNCHANGED <<job, url, response, priorFile, tryVars, mergeVars, initVars, titleVars, stop, ret, sessionVars, requested, domVars,
                   lazyVars, captureVars, outFile, blocked, stoppedAtStart, sawStop,
                   staticVars>>

\* ------------------------------------------------------ get_scribd_document
\* Lines 341-345.
has_legacy_callback(ss) == \E k \in 1..Len(ss) : ss[k].string /\ ss[k].marker

\* The first line of the output of html mode (lines 315-316) and the last
\* (lines 394-395).
HtmlHeader == [index |-> 0, kind |-> "header"]
HtmlFooter == [index |-> 0, kind |-> "footer"]

\* str.replace that stops after the first occurrence.
ReplaceFirst(t, ch, by) ==
    [k \in 1..Len(t) |->
        IF t[k] = ch /\ \A j \in 1..(k - 1) : t[j] # ch THEN by ELSE t[k]]

\* title.replace(ch, replace_char) for one-character ch and replace_char.
Replace(t, ch, by) == [k \in 1..Len(t) |-> IF t[k] = ch THEN by ELSE t[k]]

\* Lines 229-230: forbidden_chars = " *\"/\\<>:|?" and replace_char = "_".
forbidden_chars == <<" ", "*", "\"", "/", "\\", "<", ">", ":", "|", "?">>
replace_char == "_"

\* Lines 232-234: for ch in forbidden_chars, from the n-th on.
RECURSIVE SanitizeFrom(_, _)
SanitizeFrom(t, n) ==
    IF n > Len(forbidden_chars) THEN t
    ELSE SanitizeFrom(Replace(t, forbidden_chars[n], replace_char), n + 1)

sanitize_title(t) == SanitizeFrom(t, 1)

\* soup.find("title") of the documents a fetch can return: no title element,
\* or one with this text.
DocTitles == {[tag |-> FALSE, text |-> <<>>],
              [tag |-> TRUE, text |-> <<"A", " ", "b", "?">>]}

\* The fallback without its first word.
FallbackTitleShort(id) ==
    <<"D", "o", "c", "u", "m", "e", "n", "t", "_">> \o id

\* Lines 284-288: f"Scribd_Document_{doc_id}" without a title element, else
\* its text.
FallbackTitle(id) ==
    <<"S", "c", "r", "i", "b", "d", "_", "D", "o", "c", "u", "m", "e", "n", "t", "_">> \o id
TitleOf(t, id) == IF t.tag THEN t.text ELSE FallbackTitle(id)

\* A request that always goes to the URL as it was given.
TargetUrlAsGiven(mode, u, id) == u

\* Lines 271-275: the embed URL in html mode, else the URL as it was given.
TargetUrl(mode, u, id) == IF mode = "html" THEN EmbedUrl(id) ELSE u

\* Lines 265-345: the id, the fetch of the markup, the title, the head of the
\* html file, the scripts.  requests.get raises on a network error and
\* raise_for_status on an error status: both are logged at lines 397-398.
RunStatic ==
    /\ pc = "start"
    /\ ~job.use_selenium
    /\ doc_id' = get_doc_id(url)
    /\ IF IdIsMissing(doc_id')
       THEN /\ pc' = "emit"
            /\ UNCHANGED <<requested, blocked, scripts, sIdx, train, outFile,
                           rawTitle, title, titleTag>>
       ELSE /\ requested' = TargetUrl(job.mode, url, doc_id')
            /\ blocked' = TRUE
            /\ \E fetched \in BOOLEAN, d \in Docs, t \in DocTitles :
                  IF fetched
                  THEN /\ titleTag' = IF t.tag THEN "present" ELSE "absent"
                       /\ rawTitle' = TitleOf(t, doc_id')
                       /\ title' = sanitize_title(rawTitle')
                       /\ scripts' = d
                       /\ sIdx' = 1
                       /\ train' = 1
                       /\ outFile' = IF job.mode = "html"
                                     THEN [exists |-> TRUE, pages |-> <<HtmlHeader>>]
                                     ELSE outFile
                       /\ pc' = IF d = <<>> THEN "s_close" ELSE "s_loop"
                  ELSE /\ pc' = "emit"
                       /\ UNCHANGED <<scripts, sIdx, train, outFile, rawTitle,
                                      title, titleTag>>
    /\ UNCHANGED <<job, url, response, priorFile, tryVars, mergeVars, initVars, stop, report, ret,
                   sessionVars, domVars, lazyVars,
                   captureVars, stoppedAtStart, sawStop, mIdx, dispatched, images>>

\* The for loop moves to the script after sIdx.
NextScript == IF sIdx < Len(scripts) THEN "s_loop" ELSE "s_close"

\* A poll that returns from get_scribd_document on the spot.
StopReturns == "emit"

\* Lines 349-351 and 369-370: break leaves the loop over the scripts, and the
\* statements after the loops (lines 387-395) come next.
StopExitPc == "s_close"

\* Lines 349-351, 369-370 and 382-383: a poll saw the flag.  The break of the
\* inner loop leaves the script, the break of an outer loop the scripts.
StaticStop ==
    /\ pc = "s_loop"
    /\ stop
    /\ sawStop' = TRUE
    /\ IF mIdx > 0
       THEN /\ mIdx' = 0
            /\ sIdx' = sIdx + 1
            /\ pc' = NextScript
       ELSE /\ pc' = StopExitPc
            /\ UNCHANGED <<mIdx, sIdx>>
    /\ UNCHANGED <<job, url, response, priorFile, tryVars, mergeVars, initVars, titleVars, stop, report, ret, sessionVars, requested, domVars,
                   lazyVars, captureVars, outFile, blocked, stoppedAtStart,
                   scripts, train, dispatched, images>>

\* if check_stop and check_stop(): break
StaticPollPasses == ~stop

\* ------------------------------------------------------------- the sinks
\* The elements of a content string, by what the sinks read of them: the tag
\* ("text" is text outside any element), the class and the text inside.
Elements ==
    {[tag |-> "span", class |-> "a", text |-> "Hello World"],
     [tag |-> "span", class |-> "a", text |-> "x"],
     [tag |-> "span", class |-> "b", text |-> "x"],
     [tag |-> "div", class |-> "a", text |-> "x"],
     [tag |-> "text", class |-> "", text |-> "x"]}
\* A content string is the sequence of its elements; <<>> is "".
Contents == SeqsUpTo(Elements, MaxElems)

\* What requests.get(jsonp) gives a sink.  fetch: "fail" when it raises;
\* wrapper: the text has window.page<n>_callback( ... ); ; json: what is
\* between the parentheses is no JSON ("invalid"), JSON that is no list
\* ("nonlist"), or a list ("list") with the strings items.
Resp(f, w, j, it) == [fetch |-> f, wrapper |-> w, json |-> j, items |-> it]
Responses ==
    {Resp("fail", FALSE, "invalid", <<>>),
     Resp("ok", FALSE, "invalid", <<>>),
     Resp("ok", TRUE, "invalid", <<>>),
     Resp("ok", TRUE, "nonlist", <<>>),
     Resp("ok", TRUE, "list", <<>>)}
    \cup {Resp("ok", TRUE, "list", <<c>>) : c \in Contents}
    \cup {Resp("ok", TRUE, "list", <<c, <<>> >>) : c \in Contents}

\* extract_jsonp_content, lines 75-84: data[0] of a non-empty list, else None.
extract_jsonp_content(r) ==
    IF r.wrapper /\ r.json = "list" /\ Len(r.items) > 0
    THEN [none |-> FALSE, value |-> r.items[1]]
    ELSE [none |-> TRUE, value |-> <<>>]

\* A test for None alone.
IsNone(c) == c.none

\* if not content: None and "" are both false.
NotContent(c) == c.none \/ c.value = <<>>

\* find_all("span") without the class.
IsAnySpan(e) == e.tag = "span"

\* soup_content.find_all("span", {"class": "a"})
IsClassASpan(e) == e.tag = "span" /\ e.class = "a"

\* Lines 153-157: feed.write(xtext + "\n") for each element found, in the
\* order of the document.  A file is the sequence of the strings written.
RECURSIVE SpanLines(_)
SpanLines(c) ==
    IF c = <<>> THEN <<>>
    ELSE (IF IsClassASpan(Head(c)) THEN <<Head(c).text, "\n">> ELSE <<>>)
         \o SpanLines(Tail(c))

\* save_text, lines 142-161, as the file it leaves.  What requests.get raises
\* is logged; without content the function returns before open(filename, "a").
save_text(file, r) ==
    IF r.fetch = "fail" THEN file
    ELSE LET content == extract_jsonp_content(r)
         IN  IF NotContent(content) THEN file
             ELSE [exists |-> TRUE,
                   pages |-> file.pages \o SpanLines(content.value)]

\* save_html, lines 166-200: one fragment with id outer_page_<page_no> is
\* appended (get_base64_image catches what it raises).
save_html(file, r, page_no) ==
    IF r.fetch = "fail" THEN file
    ELSE LET content == extract_jsonp_content(r)
         IN  IF NotContent(content) THEN file
             ELSE [exists |-> TRUE,
                   pages |-> Append(file.pages,
                                    [index |-> page_no, kind |-> "fragment"])]

\* What a sink can meet: "ok"; "fetchfail", a requests exception, which every
\* sink logs; "nocontent", a response extract_jsonp_content returns None for
\* (text and html); "raise", an exception other than a requests one.  save_text
\* and save_html log it as well (except Exception, lines 160 and 199); save_image
\* has the requests clause only (line 136), so that what open() raises, or
\* urllib3 while copyfileobj reads response.raw, leaves save_image and is
\* caught at line 399.
SinkOutcomes(mode) ==
    IF mode = "images" THEN {"ok", "fetchfail", "raise"}
    ELSE {"ok", "fetchfail", "nocontent"}

\* The response of a run for each outcome of the text and html sinks.
ResponseOf(outcome) ==
    CASE outcome = "ok" ->
             Resp("ok", TRUE, "list", <<<<[tag |-> "span", class |-> "a", text |-> "x"]>>>>)
      [] outcome = "fetchfail" -> Resp("fail", FALSE, "invalid", <<>>)
      [] OTHER -> Resp("ok", FALSE, "invalid", <<>>)

\* An ordinal that moves on only after a sink that worked.
NextTrainOnSuccess(t, outcome) == IF outcome = "ok" THEN t + 1 ELSE t

\* Line 224: return train + 1, whatever the sink did.
NextTrain(t, outcome) == t + 1

\* save_content at ordinal train for the descriptor desc, then the step of the
\* loop to stepSIdx, stepMIdx.
Dispatch(desc, stepSIdx, stepMIdx, stepPc) ==
    /\ blocked' = TRUE
    /\ dispatched' = Append(dispatched, [ordinal |-> train, desc |-> desc])
    /\ \E outcome \in SinkOutcomes(job.mode) :
          IF outcome = "raise"
          THEN /\ pc' = "emit"
               /\ UNCHANGED <<outFile, images, train, sIdx, mIdx>>
          ELSE /\ images' = IF job.mode = "images" /\ outcome = "ok"
                            THEN images \cup {[ordinal |-> train, desc |-> desc]}
                            ELSE images
               /\ outFile' = CASE job.mode = "images" -> outFile
                                [] job.mode = "html" ->
                                       save_html(outFile, ResponseOf(outcome), train)
                                [] OTHER -> save_text(outFile, ResponseOf(outcome))
               /\ train' = NextTrain(train, outcome)
               /\ sIdx' = stepSIdx
               /\ mIdx' = stepMIdx
               /\ pc' = stepPc

\* Lines 348-363 and 368-385: the poll passed.  In the legacy form a script
\* gives the text from its first "https://" to its first ".jsonp"; in the
\* structured form each contentUrl match is polled for and dispatched.
StaticStep ==
    /\ pc = "s_loop"
    /\ StaticPollPasses
    /\ LET s == scripts[sIdx]
       IN  IF has_legacy_callback(scripts)
           THEN IF s.string /\ s.n > 0 /\ ~s.empty
                THEN Dispatch([script |-> sIdx, k |-> 1], sIdx + 1, 0, NextScript)
                ELSE /\ sIdx' = sIdx + 1
                     /\ pc' = NextScript
                     /\ UNCHANGED <<mIdx, train, dispatched, images, outFile, blocked>>
           ELSE IF mIdx = 0
                THEN /\ IF s.string /\ s.keyed /\ s.n > 0
                        THEN /\ mIdx' = 1
                             /\ UNCHANGED <<sIdx, pc>>
                        ELSE /\ sIdx' = sIdx + 1
                             /\ pc' = NextScript
                             /\ UNCHANGED mIdx
                     /\ UNCHANGED <<train, dispatched, images, outFile, blocked>>
                ELSE IF mIdx < s.n
                     THEN Dispatch([script |-> sIdx, k |-> mIdx], sIdx, mIdx + 1, "s_loop")
                     ELSE Dispatch([script |-> sIdx, k |-> mIdx], sIdx + 1, 0, NextScript)
    /\ UNCHANGED <<job, url, response, priorFile, tryVars, mergeVars, initVars, titleVars, stop, report, ret, sessionVars, requested, domVars,
                   lazyVars, captureVars, stoppedAtStart, sawStop, scripts>>

\* Lines 388-395: the footer of html mode; the function returns None.  The
\* append is taken to succeed.
StaticClose ==
    /\ pc = "s_close"
    /\ outFile' = IF job.mode = "html"
                  THEN [outFile EXCEPT !.pages = Append(@, HtmlFooter)]
                  ELSE outFile
    /\ pc' = "emit"
    /\ UNCHANGED <<job, url, response, priorFile, tryVars, mergeVars, initVars, titleVars, stop, report, ret, sessionVars, requested, domVars,
                   lazyVars, captureVars, blocked, stoppedAtStart, sawStop,
                   staticVars>>

Next ==
    \/ StopDownload
    \/ RunSelenium
    \/ SetupAttempt
    \/ Navigate
    \/ LazyStop
    \/ LazyScroll
    \/ AfterLazyPdf
    \/ CaptureStop
    \/ CaptureBegin
    \/ CaptureAttempt
    \/ PageDone
    \/ Merge
    \/ Cleanup
    \/ AfterLazyHtml
    \/ Finally
    \/ Emit
    \/ EmitError
    \/ RunStatic
    \/ StaticStop
    \/ StaticStep
    \/ StaticClose

Spec == Init /\ [][Next]_vars

\* The worker thread: every action but the GUI's.
WorkerNext ==
    \/ RunSelenium
    \/ SetupAttempt
    \/ Navigate
    \/ LazyStop
    \/ LazyScroll
    \/ AfterLazyPdf
    \/ CaptureStop
    \/ CaptureBegin
    \/ CaptureAttempt
    \/ PageDone
    \/ Merge
    \/ Cleanup
    \/ AfterLazyHtml
    \/ Finally
    \/ Emit
    \/ EmitError
    \/ RunStatic
    \/ StaticStop
    \/ StaticStep
    \/ StaticClose

\* The worker thread is scheduled as long as it has a step to take; the GUI is
\* under no obligation to press Stop.
LiveSpec == Init /\ [][Next]_vars /\ WF_vars(WorkerNext)

\* The cap on the stability counter is never what stops an increment.
LazyLoopNotCapped == pc = "lazy" => no_new_content_count < MaxIncrements

\* ==================================================================== claims
CapturePcs == {"capture", "attempt", "page_done"}

\* C1: a page gets at most 3 capture attempts, and once the loop has moved
\* past a page whose attempts all failed, the list for the merge holds exactly
\* one entry for it and that entry is a placeholder document.
C1_ExhaustedPageYieldsOnePlaceholder ==
    /\ attempt < max_retries
    /\ pc \in CapturePcs \cup {"merge"} =>
          \A p \in exhausted :
             p < i =>
                /\ Cardinality({k \in 1..Len(temp_pdfs) : temp_pdfs[k] = p}) = 1
                /\ files[p] = OnePage(p, "blank")

\* C2: right after a merge that succeeded, the output holds one page per
\* artifact of the list, the k-th output page being the page of the artifact
\* of page k: nothing dropped, duplicated or reordered.
C2_MergeIsConcatenationInIndexOrder ==
    pc = "cleanup" =>
       /\ Len(temp_pdfs) = nPages
       /\ Len(outFile.pages) = Len(temp_pdfs)
       /\ \A k \in 1..Len(temp_pdfs) :
             /\ temp_pdfs[k] = k
             /\ outFile.pages[k] = files[k].pages[1]
             /\ outFile.pages[k].index = k

\* A merge of three artifacts with a placeholder between two real pages.
C2_Witness ==
    /\ pc = "cleanup"
    /\ nPages = 3
    /\ outFile.pages[1].kind = "print"
    /\ outFile.pages[2].kind = "blank"
    /\ outFile.pages[3].kind = "image"

\* C3: the lazy-load loop always ends: with the scrollable height bounded,
\* a run that is in the loop leaves it, whether or not Stop is ever pressed
\* and whatever page counts are observed.
C3_LazyLoadTerminates == (pc = "lazy") ~> (pc # "lazy")

\* The loop ended by its second condition after increments that kept loading
\* pages, with no cancellation.
C3_Witness ==
    /\ pc = "lazy_ret"
    /\ lazyExit = "b"
    /\ ~stop
    /\ scroll_position >= 2 * ScrollIncrement
    /\ no_new_content_count = 0

\* C4 (as claimed): when the loop ends by condition (a) the stability counter
\* is exactly 3.  Only the ends that condition (b) would not have caused are
\* looked at.
C4_CounterExactlyThree ==
    (lazyExit = "a" /\ ~ScrolledPast(scroll_position, height)) =>
       no_new_content_count = StableScrolls

\* C4 (amended): when the loop ends by condition (a) the stability counter is
\* at least 3.
C4_CounterAtLeastThree ==
    lazyExit = "a" => no_new_content_count >= StableScrolls

\* The loop ended by condition (a), at the bottom, with the counter at 3.
C4_Witness ==
    /\ pc = "lazy_ret"
    /\ lazyExit = "a"
    /\ no_new_content_count = StableScrolls
    /\ yoff + Viewport >= height

\* C5: when download_as_pdf or download_as_html has returned (or was never
\* entered), no browser session of the run is open.
C5_SessionClosedOnReturn ==
    pc \in {"emit", "emit_exc", "done"} => open = {}

\* A run that created sessions, ended on a poll that saw the flag, and left
\* none of them open.
C5_Witness ==
    /\ pc = "done"
    /\ created >= 2
    /\ sawStop
    /\ ret = "False"
    /\ open = {}

\* The run wrote its output artifact.
OutputWritten ==
    IF job.mode = "images" THEN images # {}
    ELSE IF job.use_selenium THEN ret = "True" /\ outFile.exists
    ELSE outFile.exists

\* C6: the worker reports one of three outcomes; success only when the output
\* artifact was written, stopped only when a poll of the flag ended the run.
C6_ReportMatchesOutcome ==
    pc = "done" =>
       /\ report \in {"success", "stopped", "error"}
       /\ report = "success" => OutputWritten
       /\ report = "stopped" => sawStop

\* No unit of work is started: no scroll increment, no page capture, no
\* descriptor dispatched.
NoNewUnit ==
    /\ scroll_position' <= scroll_position
    /\ ~(pc = "capture" /\ pc' = "attempt")
    /\ dispatched' = dispatched

\* C7: no step taken with the flag set starts a unit of work (every unit is
\* started by a step whose poll saw the flag unset), and a run in which a poll
\* saw the flag is reported as stopped.
C7_StopStartsNoFurtherUnit ==
    /\ [][stop => NoNewUnit]_vars
    /\ [](pc = "done" /\ sawStop => report = "stopped")

\* Stop was pressed while page 2 of 3 was captured: the poll before page 3
\* ended the run as stopped.
C7_Witness ==
    /\ pc = "done"
    /\ sawStop
    /\ report = "stopped"
    /\ nPages = 3
    /\ Len(temp_pdfs) = 2

\* C8: with the flag set before the run starts, no blocking operation is
\* performed.
C8_NoBlockingOperationWhenStoppedAtStart ==
    stoppedAtStart => ~blocked

\* C9: when the loop ends on a poll that saw the flag, the value it returns is
\* the number of page elements in the session.
C9_StoppedLoopReturnsMaterializedCount ==
    (pc = "lazy_ret" /\ lazyExit = "stop") => page_count = pages

\* C10: without cancellation the capture loop is never left for the exit of
\* download_as_pdf: only the merge follows the last page.
C10_PageFailureNeverAbortsRun ==
    [][(pc \in CapturePcs /\ pc' = "finally") => stop]_vars

\* --------------------------------------------------------------- discovery
\* The descriptors script k of ss gives: in the legacy form the text from the
\* first "https://" to the first ".jsonp" of a script that has both (lines
\* 352-363), in the structured form each match of the contentUrl pattern
\* (lines 372-385).
ScriptDescriptors(ss, k) ==
    IF has_legacy_callback(ss)
    THEN IF ss[k].string /\ ss[k].n > 0 /\ ~ss[k].empty
         THEN <<[script |-> k, k |-> 1]>>
         ELSE <<>>
    ELSE IF ss[k].string /\ ss[k].keyed
         THEN [j \in 1..ss[k].n |-> [script |-> k, k |-> j]]
         ELSE <<>>

\* The descriptors of the scripts k..Len(ss), in document order.
RECURSIVE DiscoveredFrom(_, _)
DiscoveredFrom(ss, k) ==
    IF k > Len(ss) THEN <<>>
    ELSE ScriptDescriptors(ss, k) \o DiscoveredFrom(ss, k + 1)

Discovered(ss) == DiscoveredFrom(ss, 1)

\* The descriptors handed to a sink so far, in the order of the calls.
DispatchedDescriptors == [k \in 1..Len(dispatched) |-> dispatched[k].desc]

\* C11: a static run that fetched the markup and was never cancelled has
\* dispatched every descriptor of the document when it ends, whatever failed
\* in a sink on the way.
C11_SinkFailureSkipsOneDescriptor ==
    (pc = "done" /\ ~job.use_selenium /\ sIdx > 0 /\ ~stop)
        => DispatchedDescriptors = Discovered(scripts)

\* C12: a step that leaves the run with a failed merge behind it (the failing
\* merge itself and every step after it) leaves download_as_pdf's result at
\* False and deletes nothing: the page files and the scratch directory are as
\* they were.
C12_MergeFailureFailsAndKeepsArtifacts ==
    [][merged' = "failed" =>
           /\ ret' = "False"
           /\ files' = files
           /\ tempDir' = tempDir]_vars

\* A run of two pages, both captured, ended after its merge failed: False was
\* returned and both page files are in the scratch directory.
C12_Witness ==
    /\ pc = "done"
    /\ merged = "failed"
    /\ ret = "False"
    /\ nPages = 2
    /\ tempDir
    /\ \A k \in 1..2 : IsPdf(files[k])

\* C13: once the removals after a successful merge are over, download_as_pdf's
\* result is True and the merged output is in place whatever the removals did;
\* every page file whose removal did not fail is gone, and so is the scratch
\* directory when no removal failed.
C13_CleanupRemovesAndNeverFails ==
    (merged = "ok" /\ pc \in {"finally", "emit", "done"}) =>
        /\ ret = "True"
        /\ IsPdf(outFile)
        /\ Len(outFile.pages) >= nPages
        /\ \A k \in 1..nPages : k \notin removeFailed => files[k] = NoFile
        /\ (removeFailed = {} /\ ~rmdirFailed) => ~tempDir

\* A run of two pages ended after the removal of the first page file failed:
\* the second is gone, True was returned and the output is there.
C13_Witness ==
    /\ pc = "done"
    /\ merged = "ok"
    /\ nPages = 2
    /\ removeFailed = {1}
    /\ files[1] # NoFile
    /\ files[2] = NoFile
    /\ ret = "True"
    /\ IsPdf(outFile)

\* C14: _setup_driver makes at most 3 attempts; while it is still trying, every
\* failed attempt so far was followed by a wait; when the third attempt has
\* failed there were 2 waits, none after the last failure, download_as_pdf /
\* download_as_html is on its way out with False, and no session is open.
C14_DriverInitThreeAttempts ==
    /\ initTries <= 3
    /\ pc = "setup" => (initTries < 3 /\ initWaits = initTries)
    /\ initTries = 3 =>
          /\ initWaits = 2
          /\ pc \in {"finally", "emit", "done"}
          /\ ret = "False"
          /\ open = {}

\* Three attempts failed, each after it had created a session: the run is
\* over, False was returned and the three sessions are closed.
C14_Witness ==
    /\ pc = "done"
    /\ initTries = 3
    /\ initWaits = 2
    /\ created = 3
    /\ open = {}
    /\ ret = "False"

\* ------------------------------------------------- the functions on strings
\* URLs for get_doc_id and _extract_doc_id, put together from a head, a word
\* where the pattern has its literal, what follows the word, and a tail.  The
\* shapes of test_url_extraction.py are among them, and so are a literal inside
\* a longer word, a literal with no "/" or no digit after it, and a head that
\* has a match of its own.
UrlHeads == {<<>>, <<"/">>, <<"/", "x">>, <<"/">> \o LitDoc \o <<"/">>,
             <<"/">> \o LitEmbeds \o <<"/", "5", "/">>}
UrlWords == {LitDoc, LitDocument, LitEmbeds, <<"d", "o", "x">>,
             <<"e", "m", "b", "e", "d">>}
UrlAfterWord == {<<"/", "7">>, <<"/", "7", "9">>, <<"/">>, <<"7">>,
                 <<"/", "t", "7">>, <<>>}
UrlTails == {<<>>, <<"/", "t">>, <<"?", "p", "=", "4">>}
BuildUrl(h, w, a, t) == h \o w \o a \o t
TestUrls == {BuildUrl(h, w, a, t) :
                 h \in UrlHeads, w \in UrlWords, a \in UrlAfterWord, t \in UrlTails}

\* The title of test_sanitize_title (test/test_text.py, line 47).
ExampleTitle ==
    <<"M", "y", "/", "T", "i", "t", "l", "e", ":", " ", "W", "i", "t", "h",
      "*", "F", "o", "r", "b", "i", "d", "d", "e", "n", "\"", "C", "h",
      "a", "r", "s">>

\* Titles for sanitize_title: every string of at most MaxTitleLen characters
\* out of the forbidden ones, a letter and the underscore, and the title of the
\* test.
TitleChars == {forbidden_chars[k] : k \in 1..Len(forbidden_chars)} \cup {"a", "_"}
TestTitles == SeqsUpTo(TitleChars, MaxTitleLen) \cup {ExampleTitle}

\* A call of one function with one argument: the variables of the run keep
\* their initial values, pc names the call.
PureInit ==
    /\ job = [use_selenium |-> FALSE, mode |-> "text"]
    /\ \/ /\ pc \in {"call_get_doc_id", "call_extract_doc_id"}
          /\ url \in TestUrls
          /\ rawTitle = <<>>
          /\ response = NoResponse
          /\ priorFile = NoFile
          /\ train = 0
       \/ /\ pc = "call_sanitize_title"
          /\ url = <<>>
          /\ rawTitle \in TestTitles
          /\ response = NoResponse
          /\ priorFile = NoFile
          /\ train = 0
       \/ /\ pc = "call_save_text"
          /\ url = <<>>
          /\ rawTitle = <<>>
          /\ response \in Responses
          /\ priorFile \in PriorFiles("text")
          /\ train = 0
       \/ /\ pc = "call_save_html"
          /\ url = <<>>
          /\ rawTitle = <<>>
          /\ response \in Responses
          /\ priorFile \in PriorFiles("html")
          /\ train \in 1..MaxPages
    /\ outFile = priorFile
    /\ stop = FALSE
    /\ report = "none"
    /\ ret = "none"
    /\ driver = 0
    /\ created = 0
    /\ open = {}
    /\ initAttempt = 0
    /\ requested = <<>>
    /\ pages = 0
    /\ height = 0
    /\ yoff = 0
    /\ scroll_position = 0
    /\ increments = 0
    /\ maxHeight = 0
    /\ page_count = 0
    /\ no_new_content_count = 0
    /\ lazyExit = "none"
    /\ nPages = 0
    /\ i = 0
    /\ attempt = 0
    /\ captured = FALSE
    /\ files = [k \in 1..MaxPages |-> NoFile]
    /\ tempDir = FALSE
    /\ temp_pdfs = <<>>
    /\ exhausted = {}
    /\ blocked = FALSE
    /\ stoppedAtStart = FALSE
    /\ sawStop = FALSE
    /\ scripts = <<>>
    /\ sIdx = 0
    /\ mIdx = 0
    /\ dispatched = <<>>
    /\ images = {}
    /\ merged = "none"
    /\ removeFailed = {}
    /\ rmdirFailed = FALSE
    /\ initTries = 0
    /\ initWaits = 0
    /\ doc_id = <<>>
    /\ title = <<>>
    /\ titleTag = "none"
    /\ primaryTries = 0
    /\ primaryFails = 0
    /\ fallbackTries = 0
    /\ attemptWaits = 0

runVars == <<job, priorFile, tryVars, titleTag, mergeVars, initVars, stop,
             report, ret, sessionVars,
             requested, domVars, lazyVars, captureVars, blocked,
             stoppedAtStart, sawStop, staticVars>>

\* scribdl.get_doc_id(url)
CallGetDocId ==
    /\ pc = "call_get_doc_id"
    /\ doc_id' = get_doc_id(url)
    /\ pc' = "ret_get_doc_id"
    /\ UNCHANGED <<runVars, response, outFile, url, rawTitle, title>>

\* ScribdSeleniumDownloader._extract_doc_id(url)
CallExtractDocId ==
    /\ pc = "call_extract_doc_id"
    /\ doc_id' = extract_doc_id(url)
    /\ pc' = "ret_extract_doc_id"
    /\ UNCHANGED <<runVars, response, outFile, url, rawTitle, title>>

\* scribdl.sanitize_title(title)
CallSanitizeTitle ==
    /\ pc = "call_sanitize_title"
    /\ title' = sanitize_title(rawTitle)
    /\ pc' = "ret_sanitize_title"
    /\ UNCHANGED <<runVars, url, doc_id, rawTitle, response, outFile>>

\* test_save_text, test/test_text.py lines 32-43: save_text on one response.
CallSaveText ==
    /\ pc = "call_save_text"
    /\ outFile' = save_text(outFile, response)
    /\ pc' = "ret_save_text"
    /\ UNCHANGED <<runVars, url, doc_id, rawTitle, title, response>>

\* save_html on one response, with the ordinal train as page_no.
CallSaveHtml ==
    /\ pc = "call_save_html"
    /\ outFile' = save_html(outFile, response, train)
    /\ pc' = "ret_save_html"
    /\ UNCHANGED <<runVars, url, doc_id, rawTitle, title, response>>

PureNext ==
    \/ CallGetDocId
    \/ CallExtractDocId
    \/ CallSanitizeTitle
    \/ CallSaveText
    \/ CallSaveHtml

PureSpec == PureInit /\ [][PureNext]_vars

\* The three literals of the claim, and the places of u where one of them
\* stands followed by "/" and a digit.
PathLiterals == {<<"d", "o", "c">>, <<"d", "o", "c", "u", "m", "e", "n", "t">>,
                 <<"e", "m", "b", "e", "d", "s">>}
IsDigit(c) == c \in {"0", "1", "2", "3", "4", "5", "6", "7", "8", "9"}
IdPatternAt(u, p, lit) ==
    /\ p + Len(lit) + 1 <= Len(u)
    /\ SubSeq(u, p, p + Len(lit)) = lit \o <<"/">>
    /\ IsDigit(u[p + Len(lit) + 1])
IdPatternPlaces(u) ==
    {p \in 1..Len(u) : \E lit \in PathLiterals : IdPatternAt(u, p, lit)}

\* d is the whole run of digits that follows a literal and "/" at place p.
IsDigitRunAt(u, p, d) ==
    \E lit \in PathLiterals :
        LET q == p + Len(lit) + 1
        IN  /\ IdPatternAt(u, p, lit)
            /\ d # <<>>
            /\ q + Len(d) - 1 <= Len(u)
            /\ d = SubSeq(u, q, q + Len(d) - 1)
            /\ \A k \in 1..Len(d) : IsDigit(d[k])
            /\ q + Len(d) <= Len(u) => ~IsDigit(u[q + Len(d)])

\* C15: get_doc_id and _extract_doc_id return, for a URL that has a literal
\* followed by "/" and digits, the run of digits of the first such place, the
\* same whichever of the three literals stands in the URL, and the failure
\* value for a URL that has no such place.
C15_IdIsDigitRunAfterLiteral ==
    pc \in {"ret_get_doc_id", "ret_extract_doc_id"} =>
        /\ IF IdPatternPlaces(url) # {}
           THEN \E p \in IdPatternPlaces(url) :
                    /\ \A r \in IdPatternPlaces(url) : p <= r
                    /\ IsDigitRunAt(url, p, doc_id)
           ELSE doc_id = <<>>
        /\ \A h \in UrlHeads, a \in UrlAfterWord, t \in UrlTails :
              \A w1, w2 \in PathLiterals :
                  url = BuildUrl(h, w1, a, t) =>
                      /\ get_doc_id(BuildUrl(h, w2, a, t)) = doc_id
                      /\ extract_doc_id(BuildUrl(h, w2, a, t)) = doc_id

\* _extract_doc_id returned 79 for /xembeds/79?p=4, where the literal is the
\* end of a longer word.
C15_Witness ==
    /\ pc = "ret_extract_doc_id"
    /\ url = <<"/", "x">> \o LitEmbeds \o <<"/", "7", "9", "?", "p", "=", "4">>
    /\ doc_id = <<"7", "9">>

\* C16: in a run on a URL with no literal-plus-digits place, in every mode, no
\* output file (the one an earlier run left is as it was), page file, image
\* file or scratch directory comes to exist, no
\* URL is requested or navigated to, no descriptor is dispatched and no page
\* is captured: the run goes from its start straight to its report.
C16_NoIdNoOutputNoFetch ==
    IdPatternPlaces(url) = {} =>
        /\ pc \in {"start", "emit", "done"}
        /\ outFile = priorFile
        /\ outFile.exists => ~job.use_selenium
        /\ \A k \in 1..MaxPages : files[k] = NoFile
        /\ ~tempDir
        /\ images = {}
        /\ requested = <<>>
        /\ dispatched = <<>>
        /\ temp_pdfs = <<>>
        /\ ~blocked

\* A pdf run on /notadoc is over: no id came out of the URL, nothing was
\* written and nothing was requested.
C16_Witness ==
    /\ pc = "done"
    /\ job = [use_selenium |-> TRUE, mode |-> "pdf"]
    /\ url = UrlNotADoc
    /\ doc_id = <<>>
    /\ outFile = NoFile
    /\ requested = <<>>

\* The characters the claim lists.
ForbiddenInTitles == {" ", "*", "\"", "/", "\\", "<", ">", ":", "|", "?"}

\* What test_sanitize_title expects (test/test_text.py, line 49).
ExampleClean ==
    <<"M", "y", "_", "T", "i", "t", "l", "e", "_", "_", "W", "i", "t", "h",
      "_", "F", "o", "r", "b", "i", "d", "d", "e", "n", "_", "C", "h", "a",
      "r", "s">>

\* C17: sanitize_title gives a string of the length of its argument that has
\* "_" wherever the argument has one of the ten listed characters and the
\* argument's character everywhere else; sanitizing the result again changes
\* nothing; the title of the test gives the string the test expects.
C17_SanitizeReplacesCharByChar ==
    pc = "ret_sanitize_title" =>
        /\ Len(title) = Len(rawTitle)
        /\ \A k \in 1..Len(rawTitle) :
              title[k] = IF rawTitle[k] \in ForbiddenInTitles
                         THEN "_" ELSE rawTitle[k]
        /\ sanitize_title(title) = title
        /\ rawTitle = ExampleTitle => title = ExampleClean

\* sanitize_title returned for a title with the same forbidden character
\* twice.
C17_Witness ==
    /\ pc = "ret_sanitize_title"
    /\ rawTitle = <<"?", "?">>
    /\ title = <<"_", "_">>

\* https://www.scribd.com/embeds/<id>/content, in the shortened writing of the
\* URLs of the model.
CanonicalEndpoint(id) == <<"/", "e", "m", "b", "e", "d", "s", "/">> \o id \o <<"/", "c">>

C19_StoppedHtmlIsFinalized ==
    (~job.use_selenium /\ job.mode = "html" /\ sawStop /\ pc \in {"emit", "done"}) =>
        LET n == Len(outFile.pages)
        IN  /\ outFile.exists
            /\ n >= 2
            /\ outFile.pages[1] = [index |-> 0, kind |-> "header"]
            /\ outFile.pages[n] = [index |-> 0, kind |-> "footer"]
            /\ \A k \in 2..(n - 1) : outFile.pages[k].kind = "fragment"
            /\ n - 2 <= Len(dispatched)

\* A static html run was stopped after the first of the descriptors of its
\* document: the file is header, one fragment, footer.
C19_Witness ==
    /\ ~job.use_selenium
    /\ job.mode = "html"
    /\ sawStop
    /\ pc = "done"
    /\ Len(dispatched) = 1
    /\ Len(Discovered(scripts)) > 1
    /\ Len(outFile.pages) = 3
    /\ outFile.pages[2].kind = "fragment"
    /\ outFile.pages[3].kind = "footer"

\* The legacy form is in the document: a script with text has both
\* "window.page" and "_callback".
LegacyDetected == \E j \in 1..Len(scripts) : scripts[j].string /\ scripts[j].marker

\* C20: every descriptor handed to a sink comes from a script without
\* contentUrl entries when the legacy form is in the document, and from a
\* contentUrl entry when it is not.
C20_OneEncodingPerDocument ==
    \A k \in 1..Len(dispatched) :
        LET s == scripts[dispatched[k].desc.script]
        IN  IF LegacyDetected THEN ~s.keyed ELSE s.keyed

\* The response is a callback wrapper around a JSON array that holds the
\* content string.
WrapsContent(r) ==
    r.fetch = "ok" /\ r.wrapper /\ r.json = "list" /\ Len(r.items) > 0

\* The class-"a" span elements of a content string, in document order.
ClassASpans(c) == SelectSeq(c, LAMBDA e : e.tag = "span" /\ e.class = "a")

\* lines holds the text of each element of spans, in order, each followed by
\* one newline, and nothing else.
IsTextsWithNewlines(lines, spans) ==
    /\ Len(lines) = 2 * Len(spans)
    /\ \A k \in 1..Len(spans) :
           /\ lines[2 * k - 1] = spans[k].text
           /\ lines[2 * k] = "\n"

\* C21: for a response that wraps a content string, save_text leaves the file
\* as it was before, followed by the texts of the class-"a" span elements of
\* the content in document order, each followed by one newline.
C21_TextSinkAppendsSpanTexts ==
    (pc = "ret_save_text" /\ WrapsContent(response)) =>
        /\ Len(outFile.pages) >= Len(priorFile.pages)
        /\ SubSeq(outFile.pages, 1, Len(priorFile.pages)) = priorFile.pages
        /\ IsTextsWithNewlines(
               SubSeq(outFile.pages, Len(priorFile.pages) + 1, Len(outFile.pages)),
               ClassASpans(response.items[1]))

\* The payload of test_save_text: one span "Hello World" gives the one line.
C21_Witness ==
    /\ pc = "ret_save_text"
    /\ response = Resp("ok", TRUE, "list",
                       <<<<[tag |-> "span", class |-> "a", text |-> "Hello World"]>>>>)
    /\ priorFile = NoFile
    /\ outFile = [exists |-> TRUE, pages |-> <<"Hello World", "\n">>]

\* The run is one of download_as_html.
HtmlDynamic == job.use_selenium /\ job.mode = "html"

\* C22: in a run of download_as_html a step changes the output file only when
\* the lazy-load loop has returned through one of its own two exits and the
\* flag is not set, and a write that succeeds leaves the page source of that
\* moment; once the flag was seen, in the loop or at the poll after it, there
\* is no output file.
C22_HtmlWrittenAfterLazyLoad ==
    [][HtmlDynamic =>
          /\ outFile' # outFile =>
                /\ pc = "lazy_ret"
                /\ lazyExit \in {"a", "b"}
                /\ ~stop
                /\ ret' = "True" => outFile' = PageSource(pages)
          /\ sawStop' => outFile' = NoFile]_vars

\* The page source of a document with more than one page was written after the
\* loop had ended.
C22_Witness ==
    /\ HtmlDynamic
    /\ pc = "finally"
    /\ ret = "True"
    /\ ~sawStop
    /\ pages > 1
    /\ outFile = PageSource(pages)

\* The markup of a static run was fetched and has no title element.
NoTitleElement == ~job.use_selenium /\ titleTag = "absent"

\* C23 as stated: without a title element the base name of the output files
\* is Document_<id>.
C23_BaseNameIsDocumentId ==
    NoTitleElement =>
        title = <<"D", "o", "c", "u", "m", "e", "n", "t", "_">> \o doc_id

\* C23: without a title element the base name of the output files is
\* Scribd_Document_<id>, with <id> the id extracted from the URL.
C23_BaseNameIsScribdDocumentId ==
    NoTitleElement =>
        /\ doc_id = get_doc_id(url)
        /\ title = <<"S", "c", "r", "i", "b", "d", "_">>
                   \o <<"D", "o", "c", "u", "m", "e", "n", "t", "_">> \o doc_id

\* A run on a document without title element went on to its descriptors.
C23_Witness ==
    /\ NoTitleElement
    /\ doc_id # <<>>
    /\ Len(title) = 16 + Len(doc_id)
    /\ dispatched # <<>>

\* A step of the lazy-load loop that makes an increment: the flag is not set.
IsIncrement == pc = "lazy" /\ ~stop /\ scroll_position' # scroll_position

\* Condition (a) after the increment: the window offset plus one viewport has
\* reached the scrollable height and the counter of increments without a new
\* page is at three or more.
BottomAndStableAfter ==
    yoff' + Viewport >= height' /\ no_new_content_count' >= StableScrolls

\* C24 as stated: after an increment the loop stops exactly when (a) holds or
\* the window offset has reached the scrollable height.
C24_StopsIffBottomStableOrOffsetPast ==
    [][IsIncrement =>
          (pc' = "lazy_ret" <=> (BottomAndStableAfter \/ yoff' >= height'))]_vars

\* C24: after an increment the loop stops exactly when (a) holds or the
\* position asked for, the sum of the increments, has reached the scrollable
\* height; otherwise it stays in the loop for another increment.
C24_StopsIffBottomStableOrRequestPast ==
    [][IsIncrement =>
          /\ pc' = "lazy_ret" <=>
                 (BottomAndStableAfter \/ scroll_position' >= height')
          /\ pc' # "lazy_ret" =>
                 pc' = "lazy" /\ no_new_content_count' < MaxIncrements]_vars

\* The loop ended through (b) alone: the position asked for is past the
\* height while the window offset is not and the counter is below three.
C24_Witness ==
    /\ pc = "lazy_ret"
    /\ lazyExit = "b"
    /\ scroll_position >= height
    /\ yoff < height
    /\ no_new_content_count < StableScrolls

\* C25: in one step of the capture of a page the fallback is tried only when
\* the print has failed in that step; a first success ends the attempts of the
\* page; a wait is made only after a step in which both methods failed and
\* another attempt follows; a page has at most 3 tries of the print, at most 3
\* of the fallback, and never more tries of the fallback than failures of the
\* print.
C25_FallbackAfterPrimaryFailure ==
    [][/\ fallbackTries' > fallbackTries =>
              /\ fallbackTries' = fallbackTries + 1
              /\ primaryTries' = primaryTries + 1
              /\ primaryFails' = primaryFails + 1
       /\ pc' = "attempt" => ~captured'
       /\ (captured' /\ ~captured) => pc' = "page_done"
       /\ attemptWaits' > attemptWaits =>
              /\ attemptWaits' = attemptWaits + 1
              /\ fallbackTries' > fallbackTries
              /\ ~captured'
              /\ pc' = "attempt"
              /\ attempt' = attempt + 1
              /\ attempt' < max_retries
       /\ primaryTries' <= 3
       /\ fallbackTries' <= 3
       /\ fallbackTries' <= primaryFails'
       /\ primaryFails' <= primaryTries']_vars

\* The third attempt of a page succeeded through the fallback after two
\* attempts in which both methods had failed.
C25_Witness ==
    /\ pc = "page_done"
    /\ captured
    /\ primaryTries = 3
    /\ primaryFails = 3
    /\ fallbackTries = 3
    /\ attemptWaits = 2

\* The poll at the head of the capture loop saw the flag: the temporary
\* directory exists only from the start of that loop on, and the loop has the
\* only poll after that point.  i is then the page the poll stood before.
StoppedInCapture ==
    job.use_selenium /\ job.mode = "pdf" /\ sawStop /\ tempDir

\* C26: once the poll before page i of the capture loop has seen the flag,
\* the page files stay as they are, with one entry of temp_pdfs for each of
\* the pages 1..i-1 and no file for page i or a later one, no output file is
\* written, the function returns False without an exception and the worker
\* reports "stopped".
C26_StopInCaptureKeepsEarlierPages ==
    [][StoppedInCapture' =>
          /\ files' = files
          /\ i' = i
          /\ temp_pdfs' = [k \in 1..(i - 1) |-> k]
          /\ \A k \in i..MaxPages : files'[k] = NoFile
          /\ tempDir'
          /\ outFile' = NoFile
          /\ merged' = "none"
          /\ ret' = "False"
          /\ report' \in {"none", "stopped"}
          /\ pc' \in {"finally", "emit", "done"}
          /\ pc' = "done" => report' = "stopped"]_vars

\* The flag was seen before page 3; pages 1 and 2 are on disk and the worker
\* has reported.
C26_Witness ==
    /\ StoppedInCapture
    /\ pc = "done"
    /\ report = "stopped"
    /\ i = 3
    /\ files[1].exists /\ files[2].exists
    /\ files[3] = NoFile
    /\ outFile = NoFile

\* C27: the k-th call of save_content of a static run has the ordinal k and the
\* k-th descriptor of the document, whatever the sinks of the calls before did,
\* and the ordinal is 1 before the first call; in
\* images mode the file <title>_<n>.jpg holds the n-th descriptor of the
\* document.
C27_OrdinalIsDiscoveryIndex ==
    (~job.use_selenium /\ sIdx > 0) =>
        /\ dispatched = <<>> => train = 1
        /\ Len(dispatched) <= Len(Discovered(scripts))
        /\ \A k \in 1..Len(dispatched) :
               /\ dispatched[k].ordinal = k
               /\ dispatched[k].desc = Discovered(scripts)[k]
        /\ \A im \in images :
               /\ im.ordinal \in 1..Len(dispatched)
               /\ im.desc = Discovered(scripts)[im.ordinal]

\* An images run whose first descriptor failed in its sink: the second one is
\* in the file of ordinal 2 and there is no file of ordinal 1.
C27_Witness ==
    /\ ~job.use_selenium
    /\ job.mode = "images"
    /\ pc = "done"
    /\ Len(dispatched) = 2
    /\ \A im \in images : im.ordinal = 2
    /\ images # {}

\* A browser run wrote its final output file: the merged PDF or the page
\* source, and the function returned True.
FinalOutputWritten == job.use_selenium /\ ret = "True" /\ outFile.exists

\* C28: whenever the button is clicked, a worker that has reported "stopped"
\* has written no final output file, and a worker whose run wrote the final
\* output file has reported success.
C28_ReportConsistentUnderRace ==
    (pc = "done" /\ job.use_selenium) =>
        /\ report = "stopped" => ~FinalOutputWritten
        /\ FinalOutputWritten => report = "success"

\* The output file of the run begins with what the earlier run had left.
RetainsPrior ==
    /\ priorFile.exists
    /\ Len(outFile.pages) >= Len(priorFile.pages)
    /\ SubSeq(outFile.pages, 1, Len(priorFile.pages)) = priorFile.pages

\* C29: a static run in text or html mode that has written to its output file
\* leaves in it nothing of what an earlier run on the same document, mode and
\* directory had left there.
C29_RerunLeavesContentOfOneRun ==
    (/\ pc = "done"
     /\ ~job.use_selenium
     /\ job.mode \in {"text", "html"}
     /\ outFile # priorFile) => ~RetainsPrior

\* The fetch of the descriptor failed, or its response gives no content: no
\* callback wrapper, invalid JSON, no list, an empty list or an empty string.
YieldsNoContent(r) ==
    \/ r.fetch = "fail"
    \/ ~r.wrapper
    \/ r.json # "list"
    \/ r.items = <<>>
    \/ r.items[1] = <<>>

\* C30: save_text and save_html called on a response that failed or gives no
\* content leave the output file as it was before the call: nothing appended,
\* and an absent file still absent.
C30_NoContentLeavesFileUntouched ==
    (pc \in {"ret_save_text", "ret_save_html"} /\ YieldsNoContent(response))
        => outFile = priorFile

\* save_html returned for a response whose list is empty, with no file before.
C30_Witness ==
    /\ pc = "ret_save_html"
    /\ response = Resp("ok", TRUE, "list", <<>>)
    /\ priorFile = NoFile
    /\ outFile = NoFile

\* The least integer not below a / b, for b > 0.
CeilDiv(a, b) == (a + b - 1) \div b

====
